---- MODULE Spec2Model ----
(***************************************************************************)
(* Model of the simple-chat relay: the wire codec (package protocol), the  *)
(* per-connection session (ConnectedClient) and the ChatServer registry,   *)
(* handshake, broadcast and shutdown.                                      *)
(*                                                                         *)
(* A Go string is a sequence of one-character strings, so that Encode and  *)
(* Decode concatenate and split as the code does.                          *)
(***************************************************************************)
EXTENDS Naturals, Sequences, FiniteSets

(***************************************************************************)
(* Bounds of the model.                                                    *)
(***************************************************************************)
\* number of TCP connections the peers open during a run
NConns == 3
\* number of connections whose peers are unconstrained (Spec); with more,
\* the peers follow a scenario (SpecMesh)
NFree == 2
\* lines a joined peer sends before it falls silent
MaxLines == 1
\* capacity of a session's outbox; the server builds it with 256 slots, the
\* unit tests with 1 and 10: the model scales it down
outboxSize == 2

Conns == 1..NConns

(***************************************************************************)
(* package protocol                                                        *)
(***************************************************************************)
TypeJoin == <<"J", "O", "I", "N">>
TypeSend == <<"S", "E", "N", "D">>
TypeLeave == <<"L", "E", "A", "V", "E">>
TypeOK == <<"O", "K">>
TypeErr == <<"E", "R", "R">>
TypeMsg == <<"M", "S", "G">>
TypeJoined == <<"J", "O", "I", "N", "E", "D">>
TypeLeft == <<"L", "E", "F", "T">>

Bar == <<"|">>

\* Message{Type, Username, Body}; the zero value has three empty strings
Message(t, u, b) == [Type |-> t, Username |-> u, Body |-> b]

ZeroMessage == Message(<<>>, <<>>, <<>>)

Encode(m) ==
    CASE m.Type = TypeJoin -> TypeJoin \o Bar \o m.Username
      [] m.Type = TypeSend -> TypeSend \o Bar \o m.Body
      [] m.Type = TypeLeave -> TypeLeave
      [] m.Type = TypeOK -> TypeOK
      [] m.Type = TypeErr -> TypeErr \o Bar \o m.Body
      [] m.Type = TypeMsg -> TypeMsg \o Bar \o m.Username \o Bar \o m.Body
      [] m.Type = TypeJoined -> TypeJoined \o Bar \o m.Username
      [] m.Type = TypeLeft -> TypeLeft \o Bar \o m.Username
      [] OTHER -> <<>>

\* strings.SplitN(s, "|", 2): split at the first separator only
SplitN2(s) ==
    LET bars == {i \in 1..Len(s) : s[i] = "|"}
    IN IF bars = {} THEN <<s>>
       ELSE LET i == CHOOSE k \in bars : \A j \in bars : k <= j
            IN <<SubSeq(s, 1, i - 1), SubSeq(s, i + 1, Len(s))>>

Invalid == [msg |-> ZeroMessage, err |-> TRUE]

Valid(m) == [msg |-> m, err |-> FALSE]

\* Decode returns (Message, error); err is TRUE for ErrInvalidMessage
Decode(line) ==
    IF line = <<>> THEN Invalid
    ELSE
      LET parts == SplitN2(line)
          msgType == parts[1]
          noField == Len(parts) < 2 \/ parts[2] = <<>>
      IN CASE msgType = TypeJoin ->
                IF noField THEN Invalid ELSE Valid(Message(TypeJoin, parts[2], <<>>))
           [] msgType = TypeSend ->
                IF noField THEN Invalid ELSE Valid(Message(TypeSend, <<>>, parts[2]))
           [] msgType = TypeLeave -> Valid(Message(TypeLeave, <<>>, <<>>))
           [] msgType = TypeOK -> Valid(Message(TypeOK, <<>>, <<>>))
           [] msgType = TypeErr ->
                IF noField THEN Invalid ELSE Valid(Message(TypeErr, <<>>, parts[2]))
           [] msgType = TypeMsg ->
                IF Len(parts) < 2 THEN Invalid
                ELSE LET subParts == SplitN2(parts[2])
                     IN IF Len(subParts) < 2 \/ subParts[1] = <<>> \/ subParts[2] = <<>>
                        THEN Invalid
                        ELSE Valid(Message(TypeMsg, subParts[1], subParts[2]))
           [] msgType = TypeJoined ->
                IF noField THEN Invalid ELSE Valid(Message(TypeJoined, parts[2], <<>>))
           [] msgType = TypeLeft ->
                IF noField THEN Invalid ELSE Valid(Message(TypeLeft, parts[2], <<>>))
           [] OTHER -> Invalid

(***************************************************************************)
(* What the peers send.                                                    *)
(***************************************************************************)
\* display names the peers ask for. Names are interchangeable, so the peer
\* of connection c asks for one of the first c names
Letters == <<"a", "b", "c", "d", "e">>

NameOf(c) == <<Letters[c]>>

Names == {NameOf(c) : c \in Conns}

NamesFor(c) == {NameOf(d) : d \in 1..c}

\* bodies of the SEND lines
Bodies == {<<"x">>}

\* first line of a connection: a JOIN, a SEND before any JOIN, a JOIN with
\* no name, an empty line
FirstLines(c) ==
    {Encode(Message(TypeJoin, n, <<>>)) : n \in NamesFor(c)}
        \cup {Encode(Message(TypeSend, <<>>, b)) : b \in Bodies}
        \cup {TypeJoin \o Bar, <<>>}

\* lines of a joined peer: SEND, LEAVE, a second JOIN, an unknown type
ReadLines ==
    {Encode(Message(TypeSend, <<>>, b)) : b \in Bodies}
        \cup {Encode(Message(TypeLeave, <<>>, <<>>))}
        \cup {Encode(Message(TypeJoin, n, <<>>)) : n \in {<<"a">>}}
        \cup {<<"x">>}

(***************************************************************************)
(* State                                                                   *)
(***************************************************************************)
VARIABLES
    listener,    \* ChatServer.listener: "open" or "closed"
    quit,        \* ChatServer.quit is closed
    serving,     \* the serve goroutine is running
    sd,          \* where Shutdown is: "idle", "closeAll", "wait", "done"
    clients,     \* ChatServer.clients: username -> connection
    pc,          \* where handleConnection of each connection is
    username,    \* ConnectedClient.username
    outbox,      \* ConnectedClient.outbox, the buffered channel
    done,        \* ConnectedClient.done is closed
    connClosed,  \* the server's end of conn is closed
    peer,        \* the peer's end of conn: "open" or "closed"
    wire,        \* the lines written to conn while both ends were open
    wpc,         \* where writeLoop is: "off", "run", "drain", "exit"
    bc,          \* the broadcast the handler is in, holding mu.RLock
    nread,       \* lines readLoop has read
    text,        \* scanner.Text(): the line the handler has read last
    dropped,     \* the "dropping message for slow client" lines of the log
    accepted,    \* the lines the outbox channel has taken, in order
    written,     \* the Fprintf calls of writeLoop: the line and whether err = nil
    atDone,      \* the number of lines accepted when done was closed
    codec,       \* a message on its way through Encode and Decode
    trace        \* accepted, written and atDone are recorded

vars ==
    <<listener, quit, serving, sd, clients, pc, username, outbox, done,
      connClosed, peer, wire, wpc, bc, nread, text, dropped,
      accepted, written, atDone, codec, trace>>

NoLine == [read |-> FALSE, text |-> <<>>]

NoBc == [active |-> FALSE, sender |-> <<>>, line |-> <<>>, todo |-> {}]

\* no message is on its way through the codec
NoCodec == [stage |-> "off", m |-> ZeroMessage, line |-> <<>>, res |-> Invalid]

\* New() and Listen(): no client, the accept loop running
Start(tr, cd) ==
    /\ listener = "open"
    /\ quit = FALSE
    /\ serving = TRUE
    /\ sd = "idle"
    /\ clients = [n \in {} |-> 0]
    /\ pc = [c \in Conns |-> "idle"]
    /\ username = [c \in Conns |-> <<>>]
    /\ outbox = [c \in Conns |-> <<>>]
    /\ done = [c \in Conns |-> FALSE]
    /\ connClosed = [c \in Conns |-> FALSE]
    /\ peer = [c \in Conns |-> "open"]
    /\ wire = [c \in Conns |-> <<>>]
    /\ wpc = [c \in Conns |-> "off"]
    /\ bc = [c \in Conns |-> NoBc]
    /\ nread = [c \in Conns |-> 0]
    /\ text = [c \in Conns |-> NoLine]
    /\ dropped = [c \in Conns |-> 0]
    /\ accepted = [c \in Conns |-> <<>>]
    /\ written = [c \in Conns |-> <<>>]
    /\ atDone = [c \in Conns |-> 0]
    /\ codec = cd
    /\ trace = tr

Init == Start(FALSE, NoCodec)

\* the same server, with the lines of every outbox and writeLoop recorded
InitTrace == Start(TRUE, NoCodec)

(***************************************************************************)
(* sync.RWMutex mu: a broadcast holds the read lock from start to end;     *)
(* addClient, removeClient and Shutdown need the write lock.               *)
(***************************************************************************)
CanLock == \A c \in Conns : ~bc[c].active

\* a write that never reaches the peer
ConnWriteLost(c, line) == wire[c]

\* fmt.Fprintf(conn, "%s\n", line): the peer gets the line if both ends
\* of the connection are open
ConnWrite(c, line) ==
    IF ~connClosed[c] /\ peer[c] = "open" THEN Append(wire[c], line) ELSE wire[c]

\* the registry after addClient's insertion
addClientMap(c, name) ==
    [n \in DOMAIN clients \cup {name} |-> IF n = name THEN c ELSE clients[n]]

\* addClient without the exists check: the entry is overwritten
addClientNoCheck(c, name) == [ok |-> TRUE, clients |-> addClientMap(c, name)]

\* addClient that inserts before it checks: FALSE, but the entry is replaced
addClientReplace(c, name) ==
    IF name \in DOMAIN clients
    THEN [ok |-> FALSE, clients |-> addClientMap(c, name)]
    ELSE [ok |-> TRUE, clients |-> addClientMap(c, name)]

\* addClient: FALSE, and no insertion, if the name is there
addClient(c, name) ==
    IF name \in DOMAIN clients
    THEN [ok |-> FALSE, clients |-> clients]
    ELSE [ok |-> TRUE, clients |-> addClientMap(c, name)]

\* broadcast without the name test: the sender is a target too
broadcastTargetsAll(sender) == DOMAIN clients

\* the targets of broadcast(sender, line): every name but the sender's
broadcastTargets(sender) == {n \in DOMAIN clients : n # sender}

\* handleConnection that returns after the LEFT broadcast without
\* conn.Close()
afterBroadcastNoClose(c, kind) ==
    /\ pc' = [pc EXCEPT ![c] = IF kind = "bcLeft" THEN "closed" ELSE "read"]
    /\ wpc' = [wpc EXCEPT ![c] = IF kind = "bcJoined" THEN "run" ELSE @]
    /\ UNCHANGED connClosed

\* what handleConnection does when a broadcast has returned: after JOINED it
\* starts writeLoop and enters readLoop, after MSG readLoop reads on, after
\* LEFT the handler returns (conn.Close, wg.Done)
afterBroadcast(c, kind) ==
    /\ pc' = [pc EXCEPT ![c] = IF kind = "bcLeft" THEN "closed" ELSE "read"]
    /\ wpc' = [wpc EXCEPT ![c] = IF kind = "bcJoined" THEN "run" ELSE @]
    /\ connClosed' = [connClosed EXCEPT ![c] = IF kind = "bcLeft" THEN TRUE ELSE @]

\* broadcast takes mu.RLock and ranges over clients; with no other client
\* it returns at once
broadcastStart(c, sender, line, kind) ==
    IF broadcastTargets(sender) = {}
    THEN /\ afterBroadcast(c, kind)
         /\ UNCHANGED bc
    ELSE /\ bc' = [bc EXCEPT ![c] = [active |-> TRUE, sender |-> sender, line |-> line,
                                     todo |-> broadcastTargets(sender)]]
         /\ pc' = [pc EXCEPT ![c] = kind]
         /\ UNCHANGED <<wpc, connClosed>>

\* Send that puts the line at the head of the queue
SendFront(q, line) == IF Len(q) < outboxSize THEN <<line>> \o q ELSE q

\* Send that enqueues the line twice
SendTwice(q, line) == IF Len(q) < outboxSize THEN q \o <<line, line>> ELSE q

\* Send that makes room by evicting the oldest line
SendEvictOldest(q, line) ==
    IF Len(q) < outboxSize THEN Append(q, line) ELSE Append(Tail(q), line)

\* ConnectedClient.Send: enqueue, or drop when the buffer is full
Send(q, line) == IF Len(q) < outboxSize THEN Append(q, line) ELSE q

\* ConnectedClient.Send: the default case logs the drop
SendLogs(q) == IF Len(q) < outboxSize THEN 0 ELSE 1

(***************************************************************************)
(* serve and handleConnection                                              *)
(***************************************************************************)
\* serve: Accept returns a connection, wg.Add(1), go handleConnection
Accept(c) ==
    /\ serving /\ listener = "open"
    /\ pc[c] = "idle"
    /\ \A d \in Conns : d < c => pc[d] # "idle"
    /\ pc' = [pc EXCEPT ![c] = "handshake"]
    /\ UNCHANGED <<accepted, written, atDone, codec, trace>>
    /\ UNCHANGED <<listener, quit, serving, sd, clients, username, outbox, done,
                   connClosed, peer, wire, wpc, bc, nread, text, dropped>>

\* serve: Accept fails on the closed listener and quit is closed
ServeExit ==
    /\ serving /\ listener = "closed" /\ quit
    /\ serving' = FALSE
    /\ UNCHANGED <<accepted, written, atDone, codec, trace>>
    /\ UNCHANGED <<listener, quit, sd, clients, pc, username, outbox, done,
                   connClosed, peer, wire, wpc, bc, nread, text, dropped>>

\* handleConnection: the first Scan fails (deadline, EOF): return, conn.Close
HandshakeFail(c) ==
    /\ pc[c] = "handshake"
    /\ pc' = [pc EXCEPT ![c] = "closed"]
    /\ connClosed' = [connClosed EXCEPT ![c] = TRUE]
    /\ UNCHANGED <<accepted, written, atDone, codec, trace>>
    /\ UNCHANGED <<listener, quit, serving, sd, clients, username, outbox, done,
                   peer, wire, wpc, bc, nread, text, dropped>>

ErrLine(reason) == Encode(Message(TypeErr, <<>>, reason))

ExpectedJoin == <<"e", "x", "p", "e", "c", "t", "e", "d", " ", "J", "O", "I", "N",
                  " ", "m", "e", "s", "s", "a", "g", "e">>

CannotBeEmpty == <<"u", "s", "e", "r", "n", "a", "m", "e", " ", "c", "a", "n", "n",
                   "o", "t", " ", "b", "e", " ", "e", "m", "p", "t", "y">>

UsernameTaken == <<"u", "s", "e", "r", "n", "a", "m", "e", " ", "t", "a", "k", "e", "n">>

\* the checks before addClient without the test of the message type
refusalNoType(line) ==
    LET d == Decode(line)
    IN IF d.err THEN ExpectedJoin
       ELSE IF d.msg.Username = <<>> THEN CannotBeEmpty
       ELSE <<>>

\* handleConnection, the checks before addClient: the Err reason for a
\* first line that does not decode, is no JOIN or carries no name
refusal(line) ==
    LET d == Decode(line)
    IN IF d.err \/ d.msg.Type # TypeJoin THEN ExpectedJoin
       ELSE IF d.msg.Username = <<>> THEN CannotBeEmpty
       ELSE <<>>

\* handleConnection up to addClient: the first line is read and decoded. A
\* line that is refused is answered with Err and the handler returns
\* (conn.Close); else username is set and addClient called: the client is
\* registered, or answered Err "username taken" and the handler returns
Handshake(c, line) ==
    /\ pc[c] = "handshake"
    /\ peer[c] = "open"
    /\ text' = [text EXCEPT ![c] = [read |-> TRUE, text |-> line]]
    /\ IF refusal(line) # <<>>
       THEN /\ wire' = [wire EXCEPT ![c] = ConnWrite(c, ErrLine(refusal(line)))]
            /\ pc' = [pc EXCEPT ![c] = "closed"]
            /\ connClosed' = [connClosed EXCEPT ![c] = TRUE]
            /\ UNCHANGED <<clients, username>>
       ELSE /\ CanLock
            /\ username' = [username EXCEPT ![c] = Decode(line).msg.Username]
            /\ clients' = addClient(c, Decode(line).msg.Username).clients
            /\ IF addClient(c, Decode(line).msg.Username).ok
               THEN /\ pc' = [pc EXCEPT ![c] = "sendOK"]
                    /\ UNCHANGED <<wire, connClosed>>
               ELSE /\ wire' = [wire EXCEPT ![c] = ConnWrite(c, ErrLine(UsernameTaken))]
                    /\ pc' = [pc EXCEPT ![c] = "closed"]
                    /\ connClosed' = [connClosed EXCEPT ![c] = TRUE]
    /\ UNCHANGED <<accepted, written, atDone, codec, trace>>
    /\ UNCHANGED <<listener, quit, serving, sd, outbox, done, peer, wpc, bc, nread,
                   dropped>>

\* handleConnection that sends OK through the client's outbox, behind the
\* lines that were broadcast since addClient
SendOKQueued(c) ==
    /\ pc[c] = "sendOK"
    /\ outbox' = [outbox EXCEPT ![c] = Send(@, Encode(Message(TypeOK, <<>>, <<>>)))]
    /\ broadcastStart(c, username[c], Encode(Message(TypeJoined, username[c], <<>>)),
                      "bcJoined")
    /\ UNCHANGED <<accepted, written, atDone, codec, trace>>
    /\ UNCHANGED <<listener, quit, serving, sd, clients, username, wire, done,
                   peer, nread, text, dropped>>

\* handleConnection after addClient: the deadline is cleared, OK is written
\* and the JOINED broadcast starts
SendOK(c) ==
    /\ pc[c] = "sendOK"
    /\ wire' = [wire EXCEPT ![c] = ConnWrite(c, Encode(Message(TypeOK, <<>>, <<>>)))]
    /\ broadcastStart(c, username[c], Encode(Message(TypeJoined, username[c], <<>>)),
                      "bcJoined")
    /\ UNCHANGED <<accepted, written, atDone, codec, trace>>
    /\ UNCHANGED <<listener, quit, serving, sd, clients, username, outbox, done,
                   peer, nread, text, dropped>>

\* broadcast whose Send is a plain channel send: it waits for room in the
\* target's outbox
BroadcastSendBlocks(c, n) ==
    /\ bc[c].active
    /\ n \in bc[c].todo
    /\ Len(outbox[clients[n]]) < outboxSize
    /\ outbox' = [outbox EXCEPT ![clients[n]] = Append(@, bc[c].line)]
    /\ accepted' = [accepted EXCEPT ![clients[n]] =
                       IF trace THEN Append(@, bc[c].line) ELSE @]
    /\ IF bc[c].todo = {n}
       THEN /\ bc' = [bc EXCEPT ![c] = NoBc]
            /\ afterBroadcast(c, pc[c])
       ELSE /\ bc' = [bc EXCEPT ![c].todo = @ \ {n}]
            /\ UNCHANGED <<pc, wpc, connClosed>>
    /\ UNCHANGED <<written, atDone, codec, trace>>
    /\ UNCHANGED <<listener, quit, serving, sd, clients, username, done,
                   peer, wire, nread, text, dropped>>

\* broadcast: one iteration of the range loop, c.Send(line) to one client;
\* after the last one broadcast returns (mu.RUnlock)
BroadcastSend(c, n) ==
    /\ bc[c].active
    /\ n \in bc[c].todo
    /\ outbox' = [outbox EXCEPT ![clients[n]] = Send(@, bc[c].line)]
    /\ dropped' = [dropped EXCEPT ![clients[n]] = @ + SendLogs(outbox[clients[n]])]
    /\ accepted' = [accepted EXCEPT ![clients[n]] =
                       IF trace /\ SendLogs(outbox[clients[n]]) = 0
                       THEN Append(@, bc[c].line)
                       ELSE @]
    /\ IF bc[c].todo = {n}
       THEN /\ bc' = [bc EXCEPT ![c] = NoBc]
            /\ afterBroadcast(c, pc[c])
       ELSE /\ bc' = [bc EXCEPT ![c].todo = @ \ {n}]
            /\ UNCHANGED <<pc, wpc, connClosed>>
    /\ UNCHANGED <<written, atDone, codec, trace>>
    /\ UNCHANGED <<listener, quit, serving, sd, clients, username, done,
                   peer, wire, nread, text>>

(***************************************************************************)
(* readLoop and the end of handleConnection                                *)
(***************************************************************************)
\* the MSG line under the name the decoded SEND carries (none)
msgLineOfMsg(c, msg) == Encode(Message(TypeMsg, msg.Username, msg.Body))

\* readLoop: the MSG line for a SEND, under the client's username
msgLine(c, msg) == Encode(Message(TypeMsg, username[c], msg.Body))

\* readLoop that returns on every line that is no SEND: a line that does
\* not decode ends the session as LEAVE does
ReadLineStrict(c, line) ==
    /\ pc[c] = "read"
    /\ peer[c] = "open" /\ ~connClosed[c]
    /\ nread' = [nread EXCEPT ![c] = @ + 1]
    /\ text' = [text EXCEPT ![c] = [read |-> TRUE, text |-> line]]
    /\ LET d == Decode(line)
       IN IF ~d.err /\ d.msg.Type = TypeSend
          THEN /\ broadcastStart(c, username[c], msgLine(c, d.msg), "bcMsg")
               /\ UNCHANGED <<done, atDone>>
          ELSE /\ done' = [done EXCEPT ![c] = TRUE]
               /\ atDone' = [atDone EXCEPT ![c] = IF trace THEN Len(accepted[c]) ELSE @]
               /\ pc' = [pc EXCEPT ![c] = "remove"]
               /\ UNCHANGED <<bc, wpc, connClosed>>
    /\ UNCHANGED <<accepted, written, codec, trace>>
    /\ UNCHANGED <<listener, quit, serving, sd, clients, username, outbox,
                   peer, wire, dropped>>

\* readLoop: one line is read and decoded. SEND starts the MSG broadcast;
\* LEAVE returns, and handleConnection closes done; anything else is skipped
ReadLine(c, line) ==
    /\ pc[c] = "read"
    /\ peer[c] = "open" /\ ~connClosed[c]
    /\ nread' = [nread EXCEPT ![c] = @ + 1]
    /\ text' = [text EXCEPT ![c] = [read |-> TRUE, text |-> line]]
    /\ LET d == Decode(line)
       IN IF ~d.err /\ d.msg.Type = TypeSend
          THEN /\ broadcastStart(c, username[c], msgLine(c, d.msg), "bcMsg")
               /\ UNCHANGED <<done, atDone>>
          ELSE IF ~d.err /\ d.msg.Type = TypeLeave
          THEN /\ done' = [done EXCEPT ![c] = TRUE]
               /\ atDone' = [atDone EXCEPT ![c] = IF trace THEN Len(accepted[c]) ELSE @]
               /\ pc' = [pc EXCEPT ![c] = "remove"]
               /\ UNCHANGED <<bc, wpc, connClosed>>
          ELSE UNCHANGED <<pc, done, atDone, bc, wpc, connClosed>>
    /\ UNCHANGED <<accepted, written, codec, trace>>
    /\ UNCHANGED <<listener, quit, serving, sd, clients, username, outbox,
                   peer, wire, dropped>>

\* readLoop: Scan fails, on the EOF of a peer that closes its end or on a
\* conn that Shutdown closed; readLoop returns and handleConnection closes
\* done
ReadFail(c) ==
    /\ pc[c] = "read"
    /\ peer' = [peer EXCEPT ![c] = IF connClosed[c] THEN @ ELSE "closed"]
    /\ done' = [done EXCEPT ![c] = TRUE]
    /\ atDone' = [atDone EXCEPT ![c] = IF trace THEN Len(accepted[c]) ELSE @]
    /\ pc' = [pc EXCEPT ![c] = "remove"]
    /\ UNCHANGED <<accepted, written, codec, trace>>
    /\ UNCHANGED <<listener, quit, serving, sd, clients, username, outbox,
                   connClosed, wire, wpc, bc, nread, text, dropped>>

\* removeClient that empties the registry
removeClientAll(name) == [n \in {} |-> 0]

\* removeClient without the delete
removeClientKeep(name) == clients

\* the registry after removeClient's delete
removeClientMap(name) == [n \in DOMAIN clients \ {name} |-> clients[n]]

\* removeClient, the critical section: exists is read, the name deleted.
\* Without an entry no LEFT is broadcast and the handler returns
RemoveClient(c) ==
    /\ pc[c] = "remove"
    /\ CanLock
    /\ clients' = removeClientMap(username[c])
    /\ IF username[c] \in DOMAIN clients
       THEN /\ pc' = [pc EXCEPT ![c] = "left"]
            /\ UNCHANGED connClosed
       ELSE /\ pc' = [pc EXCEPT ![c] = "closed"]
            /\ connClosed' = [connClosed EXCEPT ![c] = TRUE]
    /\ UNCHANGED <<accepted, written, atDone, codec, trace>>
    /\ UNCHANGED <<listener, quit, serving, sd, username, outbox, done,
                   peer, wire, wpc, bc, nread, text, dropped>>

\* removeClient that returns after the unlock without a broadcast
LeftStartSkip(c) ==
    /\ pc[c] = "left"
    /\ pc' = [pc EXCEPT ![c] = "closed"]
    /\ connClosed' = [connClosed EXCEPT ![c] = TRUE]
    /\ UNCHANGED <<accepted, written, atDone, codec, trace>>
    /\ UNCHANGED <<listener, quit, serving, sd, clients, username, outbox, done,
                   peer, wire, wpc, bc, nread, text, dropped>>

\* removeClient after the unlock: the LEFT broadcast
LeftStart(c) ==
    /\ pc[c] = "left"
    /\ broadcastStart(c, username[c], Encode(Message(TypeLeft, username[c], <<>>)),
                      "bcLeft")
    /\ UNCHANGED <<accepted, written, atDone, codec, trace>>
    /\ UNCHANGED <<listener, quit, serving, sd, clients, username, outbox, done,
                   peer, wire, nread, text, dropped>>

(***************************************************************************)
(* writeLoop                                                               *)
(***************************************************************************)
\* writeLoop, first select case: a line is taken from outbox and written;
\* a failed write ends the loop
WriteNext(c) ==
    /\ wpc[c] = "run"
    /\ outbox[c] # <<>>
    /\ peer[c] = "stalled" => connClosed[c]
    /\ outbox' = [outbox EXCEPT ![c] = Tail(@)]
    /\ wire' = [wire EXCEPT ![c] = ConnWrite(c, Head(outbox[c]))]
    /\ \/ /\ ~connClosed[c]
          /\ written' = [written EXCEPT ![c] =
                            IF ~trace THEN @
                            ELSE Append(@, [line |-> Head(outbox[c]), ok |-> TRUE])]
          /\ UNCHANGED wpc
       \/ /\ connClosed[c] \/ peer[c] # "open"
          /\ written' = [written EXCEPT ![c] =
                            IF ~trace THEN @
                            ELSE Append(@, [line |-> Head(outbox[c]), ok |-> FALSE])]
          /\ wpc' = [wpc EXCEPT ![c] = "exit"]
    /\ UNCHANGED <<accepted, atDone, codec, trace>>
    /\ UNCHANGED <<listener, quit, serving, sd, clients, pc, username, done,
                   connClosed, peer, bc, nread, text, dropped>>

\* writeLoop, second select case: done is closed
WriteDone(c) ==
    /\ wpc[c] = "run"
    /\ done[c]
    /\ wpc' = [wpc EXCEPT ![c] = "drain"]
    /\ UNCHANGED <<accepted, written, atDone, codec, trace>>
    /\ UNCHANGED <<listener, quit, serving, sd, clients, pc, username, outbox, done,
                   connClosed, peer, wire, bc, nread, text, dropped>>

\* writeLoop, the drain loop: the lines left are written, errors ignored;
\* on an empty outbox the loop returns
Drain(c) ==
    /\ wpc[c] = "drain"
    /\ peer[c] = "stalled" => connClosed[c]
    /\ IF outbox[c] # <<>>
       THEN /\ outbox' = [outbox EXCEPT ![c] = Tail(@)]
            /\ wire' = [wire EXCEPT ![c] = ConnWrite(c, Head(outbox[c]))]
            /\ \E ok \in BOOLEAN :
                  /\ IF ok THEN ~connClosed[c] ELSE connClosed[c] \/ peer[c] # "open"
                  /\ written' = [written EXCEPT ![c] =
                                    IF ~trace THEN @
                                    ELSE Append(@, [line |-> Head(outbox[c]), ok |-> ok])]
            /\ UNCHANGED wpc
       ELSE /\ wpc' = [wpc EXCEPT ![c] = "exit"]
            /\ UNCHANGED <<outbox, wire, written>>
    /\ UNCHANGED <<accepted, atDone, codec, trace>>
    /\ UNCHANGED <<listener, quit, serving, sd, clients, pc, username, done,
                   connClosed, peer, bc, nread, text, dropped>>

(***************************************************************************)
(* The peer and Shutdown                                                   *)
(***************************************************************************)
\* the peer of a joined session stops reading and sending: the transport
\* takes no more bytes and Fprintf blocks until the conn is closed. The line
\* a blocked Fprintf holds is counted as the head of the outbox
PeerStalls(c) ==
    /\ pc[c] \in {"bcJoined", "read", "bcMsg"}
    /\ peer[c] = "open" /\ ~connClosed[c]
    /\ peer' = [peer EXCEPT ![c] = "stalled"]
    /\ UNCHANGED <<accepted, written, atDone, codec, trace>>
    /\ UNCHANGED <<listener, quit, serving, sd, clients, pc, username, outbox, done,
                   connClosed, wire, wpc, bc, nread, text, dropped>>

\* the transport of a joined session breaks in the outbound direction only:
\* from now on Fprintf returns an error, while the Scan of readLoop stays
\* pending until the peer closes its end; the peer sends nothing more
WriteBreaks(c) ==
    /\ pc[c] \in {"bcJoined", "read", "bcMsg"}
    /\ peer[c] = "open" /\ ~connClosed[c]
    /\ peer' = [peer EXCEPT ![c] = "deaf"]
    /\ UNCHANGED <<accepted, written, atDone, codec, trace>>
    /\ UNCHANGED <<listener, quit, serving, sd, clients, pc, username, outbox, done,
                   connClosed, wire, wpc, bc, nread, text, dropped>>

\* Shutdown: close(quit), listener.Close()
ShutdownStart ==
    /\ sd = "idle"
    /\ quit' = TRUE
    /\ listener' = "closed"
    /\ sd' = "closeAll"
    /\ UNCHANGED <<accepted, written, atDone, codec, trace>>
    /\ UNCHANGED <<serving, clients, pc, username, outbox, done, connClosed, peer,
                   wire, wpc, bc, nread, text, dropped>>

\* Shutdown: under mu.Lock the conn of every registered client is closed
ShutdownCloseAll ==
    /\ sd = "closeAll"
    /\ CanLock
    /\ connClosed' = [c \in Conns |->
                        connClosed[c] \/ \E n \in DOMAIN clients : clients[n] = c]
    /\ sd' = "wait"
    /\ UNCHANGED <<accepted, written, atDone, codec, trace>>
    /\ UNCHANGED <<listener, quit, serving, clients, pc, username, outbox, done, peer,
                   wire, wpc, bc, nread, text, dropped>>

\* Shutdown that returns without wg.Wait()
ShutdownReturnNoWait ==
    /\ sd = "wait"
    /\ sd' = "done"
    /\ UNCHANGED <<accepted, written, atDone, codec, trace>>
    /\ UNCHANGED <<listener, quit, serving, clients, pc, username, outbox, done,
                   connClosed, peer, wire, wpc, bc, nread, text, dropped>>

\* Shutdown: wg.Wait() returns once serve and every handler have returned
ShutdownReturn ==
    /\ sd = "wait"
    /\ ~serving
    /\ \A c \in Conns : pc[c] \in {"idle", "closed"}
    /\ sd' = "done"
    /\ UNCHANGED <<accepted, written, atDone, codec, trace>>
    /\ UNCHANGED <<listener, quit, serving, clients, pc, username, outbox, done,
                   connClosed, peer, wire, wpc, bc, nread, text, dropped>>

\* every step of the server and of the peers of the first NFree
\* connections, which send what they like
Next ==
    \/ \E c \in 1..NFree : Accept(c)
    \/ ServeExit
    \/ \E c \in Conns : HandshakeFail(c)
    \/ \E c \in Conns : \E line \in FirstLines(c) : Handshake(c, line)
    \/ \E c \in Conns : SendOK(c)
    \/ \E c \in Conns : \E n \in Names : BroadcastSend(c, n)
    \/ \E c \in Conns : \E line \in ReadLines : nread[c] < MaxLines /\ ReadLine(c, line)
    \/ \E c \in Conns : ReadFail(c)
    \/ \E c \in Conns : RemoveClient(c)
    \/ \E c \in Conns : LeftStart(c)
    \/ \E c \in Conns : WriteNext(c)
    \/ \E c \in Conns : WriteDone(c)
    \/ \E c \in Conns : Drain(c)
    \/ ShutdownStart
    \/ ShutdownCloseAll
    \/ ShutdownReturn

Spec == Init /\ [][Next]_vars

\* the same steps, recorded
SpecTrace == InitTrace /\ [][Next]_vars

\* the goroutines of connection c are scheduled: a handler that can go on
\* with its handshake, its broadcast or its removeClient does, and so does
\* a writeLoop that can take a select case or drain. sync.RWMutex lets no
\* writer starve. The peers owe nothing: no fairness on what they send, on
\* their closing, or on Shutdown being called
Fairness(c) ==
    /\ WF_vars(SendOK(c))
    /\ WF_vars(\E n \in Names : BroadcastSend(c, n))
    /\ WF_vars(RemoveClient(c))
    /\ WF_vars(LeftStart(c))
    /\ WF_vars(WriteNext(c))
    /\ WF_vars(WriteDone(c))
    /\ WF_vars(Drain(c))

\* the sessions of the first NFree connections from handshake to close:
\* the peers join under a name, send SEND and LEAVE lines and close when
\* they like; Shutdown is not called
Live ==
    \/ \E c \in 1..NFree : Accept(c)
    \/ \E c \in Conns : \E name \in NamesFor(c) :
          Handshake(c, Encode(Message(TypeJoin, name, <<>>)))
    \/ \E c \in Conns : SendOK(c)
    \/ \E c \in Conns : \E n \in Names : BroadcastSend(c, n)
    \/ \E c \in Conns : \E b \in Bodies :
          nread[c] < MaxLines /\ ReadLine(c, Encode(Message(TypeSend, <<>>, b)))
    \/ \E c \in Conns :
          nread[c] < MaxLines /\ ReadLine(c, Encode(Message(TypeLeave, <<>>, <<>>)))
    \/ \E c \in Conns : ReadFail(c)
    \/ \E c \in Conns : RemoveClient(c)
    \/ \E c \in Conns : LeftStart(c)
    \/ \E c \in Conns : WriteNext(c)
    \/ \E c \in Conns : WriteDone(c)
    \/ \E c \in Conns : Drain(c)

SpecFair == Init /\ [][Live]_vars /\ \A c \in Conns : Fairness(c)

\* the sessions of Live on transports that can break in the outbound
\* direction
Faulty ==
    \/ Live
    \/ \E c \in Conns : WriteBreaks(c)

SpecFaulty == Init /\ [][Faulty]_vars /\ \A c \in Conns : Fairness(c)

\* the room with one bad peer: NConns peers connect in turn and join under
\* their own names; the peer of the first connection stops reading, or its
\* transport breaks, when it likes; the others send SEND lines and the
\* last one closes when it likes
Jam ==
    \/ \E c \in Conns :
          /\ c > 1 => pc[c - 1] \notin {"idle", "handshake", "sendOK"}
          /\ Accept(c)
    \/ \E c \in Conns : Handshake(c, Encode(Message(TypeJoin, NameOf(c), <<>>)))
    \/ \E c \in Conns : SendOK(c)
    \/ \E c \in Conns : \E n \in Names : BroadcastSend(c, n)
    \/ \E c \in Conns \ {1} : \E b \in Bodies :
          nread[c] < MaxLines /\ ReadLine(c, Encode(Message(TypeSend, <<>>, b)))
    \/ ReadFail(NConns)
    \/ \E c \in Conns : RemoveClient(c)
    \/ \E c \in Conns : LeftStart(c)
    \/ \E c \in Conns : WriteNext(c)
    \/ \E c \in Conns : WriteDone(c)
    \/ \E c \in Conns : Drain(c)
    \/ PeerStalls(1)
    \/ WriteBreaks(1)

SpecJam == Init /\ [][Jam]_vars /\ \A c \in Conns : Fairness(c)

\* lines a joined peer sends in the scenario Odd
MaxOdd == 2

\* lines readLoop has no case for: lines that do not decode (empty, an
\* unknown type, SEND and JOIN and MSG without their field) and lines of
\* the other types (a second JOIN and the server's own OK, ERR, MSG, JOINED
\* and LEFT)
OddLines ==
    {<<>>, <<"x">>, TypeSend, TypeSend \o Bar, TypeJoin \o Bar,
     TypeMsg \o Bar \o <<"a">>}
        \cup {Encode(Message(TypeJoin, n, <<>>)) : n \in Names}
        \cup {Encode(Message(TypeOK, <<>>, <<>>)),
              Encode(Message(TypeErr, <<>>, <<"x">>)),
              Encode(Message(TypeMsg, <<"a">>, <<"x">>)),
              Encode(Message(TypeJoined, <<"a">>, <<>>)),
              Encode(Message(TypeLeft, <<"a">>, <<>>))}

\* the sessions of the first NFree connections: the peer of the first
\* sends up to MaxOdd lines after the join, SEND, LEAVE and the lines of
\* OddLines, and closes when it likes; the others send SEND lines
Odd ==
    \/ \E c \in 1..NFree : Accept(c)
    \/ \E c \in Conns : Handshake(c, Encode(Message(TypeJoin, NameOf(c), <<>>)))
    \/ \E c \in Conns : SendOK(c)
    \/ \E c \in Conns : \E n \in Names : BroadcastSend(c, n)
    \/ \E c \in Conns \ {1} : \E b \in Bodies :
          nread[c] < MaxLines /\ ReadLine(c, Encode(Message(TypeSend, <<>>, b)))
    \/ \E b \in Bodies :
          nread[1] < MaxOdd /\ ReadLine(1, Encode(Message(TypeSend, <<>>, b)))
    \/ nread[1] < MaxOdd /\ ReadLine(1, Encode(Message(TypeLeave, <<>>, <<>>)))
    \/ \E line \in OddLines : nread[1] < MaxOdd /\ ReadLine(1, line)
    \/ ReadFail(1)
    \/ \E c \in Conns : RemoveClient(c)
    \/ \E c \in Conns : LeftStart(c)
    \/ \E c \in Conns : WriteNext(c)
    \/ \E c \in Conns : WriteDone(c)
    \/ \E c \in Conns : Drain(c)

SpecOdd == Init /\ [][Odd]_vars

\* a name is used again: the peer of the first connection joins under its
\* own name, stays and sends SEND lines; when it is in readLoop the other
\* peers connect, each asks for the name of the second connection, and each
\* closes when it likes
Rejoin ==
    \/ \E c \in Conns :
          /\ c > 1 => pc[1] = "read"
          /\ Accept(c)
    \/ Handshake(1, Encode(Message(TypeJoin, NameOf(1), <<>>)))
    \/ \E c \in Conns \ {1} : Handshake(c, Encode(Message(TypeJoin, NameOf(2), <<>>)))
    \/ \E c \in Conns : SendOK(c)
    \/ \E c \in Conns : \E n \in Names : BroadcastSend(c, n)
    \/ \E b \in Bodies :
          nread[1] < MaxLines /\ ReadLine(1, Encode(Message(TypeSend, <<>>, b)))
    \/ \E c \in Conns \ {1} : ReadFail(c)
    \/ \E c \in Conns : RemoveClient(c)
    \/ \E c \in Conns : LeftStart(c)
    \/ \E c \in Conns : WriteNext(c)
    \/ \E c \in Conns : WriteDone(c)
    \/ \E c \in Conns : Drain(c)

SpecRejoin == Init /\ [][Rejoin]_vars

\* names with the separator in them: the name of the first connection, the
\* separator and a letter
PipedNames == {NameOf(1) \o Bar \o NameOf(c) : c \in Conns}

\* the sessions of the first NFree connections, whose peers ask for their
\* own name or for a name with the separator in it, send SEND lines and
\* close when they like
Piped ==
    \/ \E c \in 1..NFree : Accept(c)
    \/ \E c \in Conns : \E name \in {NameOf(c)} \cup PipedNames :
          Handshake(c, Encode(Message(TypeJoin, name, <<>>)))
    \/ \E c \in Conns : SendOK(c)
    \/ \E c \in Conns : \E n \in Names \cup PipedNames : BroadcastSend(c, n)
    \/ \E c \in Conns : \E b \in Bodies :
          nread[c] < MaxLines /\ ReadLine(c, Encode(Message(TypeSend, <<>>, b)))
    \/ \E c \in Conns : ReadFail(c)
    \/ \E c \in Conns : RemoveClient(c)
    \/ \E c \in Conns : LeftStart(c)
    \/ \E c \in Conns : WriteNext(c)
    \/ \E c \in Conns : WriteDone(c)
    \/ \E c \in Conns : Drain(c)

SpecPiped == Init /\ [][Piped]_vars

\* the full mesh: NConns peers join under distinct names and each sends
\* SEND lines; none leaves and Shutdown is not called
Mesh ==
    \/ \E c \in Conns : Accept(c)
    \/ \E c \in Conns : Handshake(c, Encode(Message(TypeJoin, NameOf(c), <<>>)))
    \/ \E c \in Conns : SendOK(c)
    \/ \E c \in Conns : \E n \in Names : BroadcastSend(c, n)
    \/ \E c \in Conns : \E b \in Bodies :
          nread[c] < MaxLines /\ ReadLine(c, Encode(Message(TypeSend, <<>>, b)))
    \/ \E c \in Conns : WriteNext(c)

SpecMesh == Init /\ [][Mesh]_vars

\* SEND lines a peer sends in the scenario Order
OrderLines == 2

\* the body of the k-th SEND line of a peer
BodiesInOrder == <<"x", "y", "z", "w">>

BodyAt(k) == <<BodiesInOrder[k]>>

\* the sessions of the first NFree connections, whose peers number their
\* SEND lines: they join under their own name, send up to OrderLines
\* lines, the k-th with the body BodyAt(k), and leave or close when they
\* like
Order ==
    \/ \E c \in 1..NFree : Accept(c)
    \/ \E c \in Conns : Handshake(c, Encode(Message(TypeJoin, NameOf(c), <<>>)))
    \/ \E c \in Conns : SendOK(c)
    \/ \E c \in Conns : \E n \in Names : BroadcastSend(c, n)
    \/ \E c \in Conns :
          /\ nread[c] < OrderLines
          /\ ReadLine(c, Encode(Message(TypeSend, <<>>, BodyAt(nread[c] + 1))))
    \/ \E c \in Conns : ReadLine(c, Encode(Message(TypeLeave, <<>>, <<>>)))
    \/ \E c \in Conns : ReadFail(c)
    \/ \E c \in Conns : RemoveClient(c)
    \/ \E c \in Conns : LeftStart(c)
    \/ \E c \in Conns : WriteNext(c)
    \/ \E c \in Conns : WriteDone(c)
    \/ \E c \in Conns : Drain(c)

SpecOrder == Init /\ [][Order]_vars

(***************************************************************************)
(* The codec on its own: a message is encoded and the line decoded.        *)
(***************************************************************************)
\* longest Username and Body of the messages encoded
MaxField == 2

\* the characters of a field: a letter and the separator
Alphabet == {"a", "|"}

Fields == UNION {[1..n -> Alphabet] : n \in 0..MaxField}

Types == {TypeJoin, TypeSend, TypeLeave, TypeOK, TypeErr, TypeMsg, TypeJoined, TypeLeft}

\* the fields a message type carries on the wire
HasUsername(t) == t \in {TypeJoin, TypeMsg, TypeJoined, TypeLeft}

HasBody(t) == t \in {TypeSend, TypeErr, TypeMsg}

\* the messages of every type with the fields of the type set and not
\* empty, the others left at their zero value
Messages ==
    {Message(t, u, b) : t \in Types, u \in Fields, b \in Fields} \ 
        {m \in [Type : Types, Username : Fields, Body : Fields] :
            \/ (m.Username = <<>>) = HasUsername(m.Type)
            \/ (m.Body = <<>>) = HasBody(m.Type)}

\* every variable but codec
chat ==
    <<listener, quit, serving, sd, clients, pc, username, outbox, done,
      connClosed, peer, wire, wpc, bc, nread, text, dropped,
      accepted, written, atDone, trace>>

InitCodec ==
    \E m \in Messages :
        Start(FALSE, [stage |-> "new", m |-> m, line |-> <<>>, res |-> Invalid])

CodecEncode ==
    /\ codec.stage = "new"
    /\ codec' = [codec EXCEPT !.stage = "encoded", !.line = Encode(codec.m)]
    /\ UNCHANGED chat

CodecDecode ==
    /\ codec.stage = "encoded"
    /\ codec' = [codec EXCEPT !.stage = "decoded", !.res = Decode(codec.line)]
    /\ UNCHANGED chat

SpecCodec == InitCodec /\ [][CodecEncode \/ CodecDecode]_vars

\* the handshake of every connection has got as far as the OK line
AllJoined == \A c \in Conns : pc[c] \in {"bcJoined", "read", "bcMsg"}

\* the room of NConns clients that send one line each: a peer connects
\* when the one before it has its OK, joins under its own name, and sends
\* its one SEND line when all have joined; none leaves
Room ==
    \/ \E c \in Conns :
          /\ c > 1 => pc[c - 1] \in {"bcJoined", "read"}
          /\ Accept(c)
    \/ \E c \in Conns : Handshake(c, Encode(Message(TypeJoin, NameOf(c), <<>>)))
    \/ \E c \in Conns : SendOK(c)
    \/ \E c \in Conns : \E n \in Names : BroadcastSend(c, n)
    \/ \E c \in Conns : \E b \in Bodies :
          /\ AllJoined /\ nread[c] = 0
          /\ ReadLine(c, Encode(Message(TypeSend, <<>>, b)))
    \/ \E c \in Conns : WriteNext(c)

SpecRoom == Init /\ [][Room]_vars /\ \A c \in Conns : Fairness(c)

(***************************************************************************)
(* Properties                                                              *)
(***************************************************************************)
\* the connection is a registered session: addClient returned true and
\* removeClient has not run
Session(c) == pc[c] \in {"sendOK", "bcJoined", "read", "bcMsg", "remove"}

\* removeClient has deleted the connection's session
Deregistered(c) == pc[c] \in {"left", "bcLeft"} \/ (pc[c] = "closed" /\ done[c])

Registered(c) == \E n \in DOMAIN clients : clients[n] = c

Contains(q, line) == \E i \in 1..Len(q) : q[i] = line

Occurrences(q, line) == Cardinality({i \in 1..Len(q) : q[i] = line})

OkLine == <<"O", "K">>

ErrTaken == <<"E", "R", "R", "|">> \o UsernameTaken

ErrExpected == <<"E", "R", "R", "|">> \o ExpectedJoin

JoinedLine(n) == <<"J", "O", "I", "N", "E", "D", "|">> \o n

LeftLine(n) == <<"L", "E", "F", "T", "|">> \o n

MsgTextLine(n, b) == <<"M", "S", "G", "|">> \o n \o <<"|">> \o b

SendTextLine(b) == <<"S", "E", "N", "D", "|">> \o b

\* everything that was enqueued for the connection and not lost in a write
Lines(c) == wire[c] \o outbox[c]

\* the connection asked for a name in its handshake and was answered
\* "username taken"
Refused(c) == pc[c] = "closed" /\ username[c] # <<>> /\ wire[c] = <<ErrTaken>>

----
\* C1, the registry: every name has at most one session, and the registry
\* maps a name to exactly that session
C1_OnePerName ==
    /\ \A n \in Names : Cardinality({c \in Conns : Session(c) /\ username[c] = n}) <= 1
    /\ \A n \in DOMAIN clients : Session(clients[n]) /\ username[clients[n]] = n
    /\ \A c \in Conns : Session(c) => username[c] \in DOMAIN clients /\ clients[username[c]] = c

\* C1, a join attempt: with the name free it registers the connection, with
\* the name taken it is refused and the registry stays as it is
C1_JoinStep ==
    \A c \in Conns :
        pc[c] = "handshake" /\ pc'[c] # "handshake" /\ username'[c] # <<>> =>
            IF username'[c] \notin DOMAIN clients
            THEN /\ pc'[c] = "sendOK"
                 /\ DOMAIN clients' = DOMAIN clients \cup {username'[c]}
                 /\ clients'[username'[c]] = c
            ELSE /\ pc'[c] = "closed"
                 /\ clients' = clients
                 /\ wire'[c] = <<ErrTaken>>

\* C1, the winner gets Ok: it is the first line written to the connection
C1_OkStep ==
    \A c \in Conns :
        pc[c] = "sendOK" /\ pc'[c] # "sendOK" /\ ~connClosed[c] => wire'[c] = <<OkLine>>

\* C1: of the join attempts that use one identity exactly one succeeds while
\* the identity is registered: the attempt that finds it free registers and
\* gets Ok, every other one is refused; the registry holds exactly one entry
\* for the identity
C1_ExactlyOneJoins == []C1_OnePerName /\ [][C1_JoinStep /\ C1_OkStep]_vars

\* two attempts with one identity: one holds it, the other was refused
C1_Witness ==
    \E c, d \in Conns :
        /\ c # d /\ username[c] = username[d]
        /\ Session(c) /\ wire[c] = <<OkLine>> /\ clients[username[c]] = c
        /\ Refused(d)

----
\* C3, the queue never holds more than its capacity
C3_Bounded == \A d \in Conns : Len(outbox[d]) <= outboxSize

\* C3, the caller never blocks: every pending Send of a broadcast can run,
\* whatever the state of the target's queue
C3_NeverBlocks ==
    \A c \in Conns : bc[c].active => \A n \in bc[c].todo : ENABLED BroadcastSend(c, n)

\* C3, a Send to a full queue leaves the queue as it was and logs the drop
C3_FullStep ==
    \A c \in Conns : \A n \in Names :
        (/\ bc[c].active /\ n \in bc[c].todo /\ n \notin bc'[c].todo
         /\ Len(outbox[clients[n]]) = outboxSize)
            => /\ outbox'[clients[n]] = outbox[clients[n]]
               /\ dropped'[clients[n]] = dropped[clients[n]] + 1

\* C3, FIFO: a queue changes only by losing its head or, with room, by
\* gaining a line at its tail; no queued line is evicted
C3_QueueKept ==
    \A d \in Conns :
        \/ outbox'[d] = outbox[d]
        \/ outbox[d] # <<>> /\ outbox'[d] = Tail(outbox[d])
        \/ /\ Len(outbox[d]) < outboxSize
           /\ Len(outbox'[d]) = Len(outbox[d]) + 1
           /\ SubSeq(outbox'[d], 1, Len(outbox[d])) = outbox[d]

\* C3: enqueueing onto a full outbound queue does not block the caller and
\* leaves the queue exactly as it was: the new item is the one discarded,
\* the queued items stay in FIFO order and none is evicted
C3_FullQueueDropsNew ==
    [](C3_Bounded /\ C3_NeverBlocks) /\ [][C3_FullStep /\ C3_QueueKept]_vars

\* a line was dropped at a queue that is still full
C3_Witness == \E d \in Conns : dropped[d] > 0 /\ Len(outbox[d]) = outboxSize

----
\* C4, a deregistered session is not in the registry
C4_Gone == \A c \in Conns : Deregistered(c) => ~Registered(c)

\* C4, removeClient leaves no entry for the name
C4_RemoveStep ==
    \A c \in Conns : pc[c] = "remove" /\ pc'[c] # "remove" => username[c] \notin DOMAIN clients'

\* C4, a join under the name of a deregistered session, with no session
\* holding the name, succeeds
C4_RejoinStep ==
    \A d \in Conns :
        (/\ pc[d] = "handshake" /\ pc'[d] # "handshake" /\ username'[d] # <<>>
         /\ \E c \in Conns \ {d} : Deregistered(c) /\ username[c] = username'[d]
         /\ ~\E e \in Conns : Session(e) /\ username[e] = username'[d])
            => pc'[d] = "sendOK" /\ clients'[username'[d]] = d

\* C4: after a session registered as n is deregistered (Leave, read failure
\* or closed transport) the registry has no entry for n, and a later join
\* by a new connection using n succeeds
C4_NameReusable == []C4_Gone /\ [][C4_RemoveStep /\ C4_RejoinStep]_vars

\* a session left and a new connection holds its name
C4_Witness ==
    \E c, d \in Conns :
        /\ c # d /\ Deregistered(c) /\ pc[c] = "closed"
        /\ username[d] = username[c] /\ Session(d)
        /\ clients[username[d]] = d /\ wire[d] = <<OkLine>>

----
\* the first line of the connection is no JOIN: it does not decode, or it
\* decodes to another type
BadFirstLine(c) ==
    /\ text[c].read /\ nread[c] = 0
    /\ Decode(text[c].text).err \/ Decode(text[c].text).msg.Type # TypeJoin

\* C8, a connection with a bad first line is closed, was answered
\* ERR|expected JOIN message and is not registered
C8_Rejected ==
    \A c \in Conns :
        BadFirstLine(c) =>
            /\ pc[c] = "closed" /\ connClosed[c]
            /\ wire[c] = <<ErrExpected>>
            /\ ~Registered(c) /\ username[c] = <<>>
            /\ ~bc[c].active /\ wpc[c] = "off"

\* C8, the step that reads the bad first line broadcasts nothing
C8_Step ==
    \A c \in Conns :
        pc[c] = "handshake" /\ BadFirstLine(c)'
            => clients' = clients /\ outbox' = outbox /\ bc' = bc

\* C8: a connection whose first line is undecodable or no Join receives
\* ERR|expected JOIN message, is closed and is never added to the registry;
\* no JOINED or LEFT is produced for it
C8_BadFirstLineRejected == []C8_Rejected /\ [][C8_Step]_vars

\* SEND|x as the first line, answered with the Err, beside a session
C8_Witness ==
    \E c, d \in Conns :
        /\ text[c] = [read |-> TRUE, text |-> SendTextLine(<<"x">>)] /\ nread[c] = 0
        /\ wire[c] = <<ErrExpected>> /\ pc[c] = "closed"
        /\ Session(d)

----
\* C9, a refused connection is not registered and runs no activity
C9_RefusedIdle ==
    \A d \in Conns :
        Refused(d) => ~Registered(d) /\ ~bc[d].active /\ wpc[d] = "off" /\ outbox[d] = <<>>

\* C9, the step that refuses a taken name changes the refused connection only
C9_Step ==
    \A d \in Conns :
        (/\ pc[d] = "handshake" /\ pc'[d] # "handshake"
         /\ username'[d] # <<>> /\ username'[d] \in DOMAIN clients)
            => /\ wire'[d] = <<ErrTaken>> /\ pc'[d] = "closed" /\ connClosed'[d]
               /\ clients' = clients /\ outbox' = outbox /\ bc' = bc
               /\ wpc' = wpc /\ done' = done /\ dropped' = dropped
               /\ \A e \in Conns \ {d} :
                      /\ pc'[e] = pc[e] /\ wire'[e] = wire[e]
                      /\ connClosed'[e] = connClosed[e] /\ username'[e] = username[e]

\* C9: a join with a registered identity is answered ERR|username taken and
\* closed; the registry, the session that holds the identity, its queue and
\* its activities are unchanged and nothing is broadcast
C9_TakenNameRefused == []C9_RefusedIdle /\ [][C9_Step]_vars

\* a refused attempt beside the running session that holds the name
C9_Witness ==
    \E c, d \in Conns :
        /\ c # d /\ Refused(d) /\ username[c] = username[d]
        /\ pc[c] = "read" /\ wpc[c] = "run" /\ clients[username[c]] = c

----
\* C7, during a MSG broadcast the sender is registered, is excluded and the
\* line carries its username and the body of the SEND it read
C7_Broadcasting ==
    \A c \in Conns :
        pc[c] = "bcMsg" =>
            /\ bc[c].active /\ bc[c].sender = username[c]
            /\ username[c] \in DOMAIN clients /\ clients[username[c]] = c
            /\ username[c] \notin bc[c].todo
            /\ \E b \in Bodies : /\ text[c].text = SendTextLine(b)
                                 /\ bc[c].line = MsgTextLine(username[c], b)

\* C7, no session is sent a MSG of its own
C7_NoOwn ==
    \A c \in Conns : \A b \in Bodies : ~Contains(Lines(c), MsgTextLine(username[c], b))

\* C7, every MSG line carries the username of another session, which has
\* read a SEND
C7_Attributed ==
    \A c \in Conns : \A i \in 1..Len(Lines(c)) :
        Lines(c)[i][1] = "M" =>
            \E e \in Conns \ {c} : \E b \in Bodies :
                Lines(c)[i] = MsgTextLine(username[e], b) /\ nread[e] > 0

\* C7, a SEND read by a session starts the broadcast of its MSG line to
\* every other registered session
C7_Step ==
    \A c \in Conns : \A b \in Bodies :
        (pc[c] = "read" /\ nread'[c] = nread[c] + 1 /\ text'[c].text = SendTextLine(b))
            => /\ username[c] \in DOMAIN clients /\ clients[username[c]] = c
               /\ IF DOMAIN clients = {username[c]}
                  THEN pc'[c] = "read" /\ outbox' = outbox
                  ELSE bc'[c] = [active |-> TRUE, sender |-> username[c],
                                 line |-> MsgTextLine(username[c], b),
                                 todo |-> DOMAIN clients \ {username[c]}]

\* C7: a Send with body b from joined session S has MSG|S.identity|b
\* enqueued to the other registered sessions and never to S; the identity
\* is the one S registered with and S is registered while it broadcasts
C7_SendBecomesMsg ==
    [](C7_Broadcasting /\ C7_NoOwn /\ C7_Attributed) /\ [][C7_Step]_vars

\* the MSG of one session is in the queue of the other and not in its own
C7_Witness ==
    \E c, d \in Conns :
        /\ c # d /\ Session(c) /\ Session(d)
        /\ Contains(outbox[d], MsgTextLine(username[c], <<"x">>))
        /\ ~Contains(Lines(c), MsgTextLine(username[c], <<"x">>))

----
\* C2, the sender's name is no target of its broadcast, and the targets are
\* registered
C2_Exclusion ==
    \A c \in Conns :
        bc[c].active => bc[c].sender \notin bc[c].todo /\ bc[c].todo \subseteq DOMAIN clients

\* C2, no session holds a line that was broadcast under its own name
C2_NoOwnLine ==
    \A c \in Conns :
        /\ ~Contains(Lines(c), JoinedLine(username[c]))
        /\ \A b \in Bodies : ~Contains(Lines(c), MsgTextLine(username[c], b))

\* C2, a broadcast starts with every registered name but the sender's to
\* serve, and the start itself changes no queue and no registry entry
C2_StartStep ==
    \A c \in Conns :
        ~bc[c].active /\ bc'[c].active
            => /\ bc'[c].todo = DOMAIN clients \ {bc'[c].sender}
               /\ outbox' = outbox /\ clients' = clients

\* C2, a broadcast goes on by serving one target, once: the line is
\* appended to that queue if it has room, no other queue changes (the
\* sender's least of all), the registry is unchanged, and the broadcast
\* ends with the last target
C2_SendStep ==
    \A c \in Conns :
        bc[c].active /\ bc'[c] # bc[c]
            => \E n \in bc[c].todo :
                  /\ bc'[c] = IF bc[c].todo = {n} THEN NoBc
                              ELSE [bc[c] EXCEPT !.todo = @ \ {n}]
                  /\ outbox' = [outbox EXCEPT ![clients[n]] =
                                   IF Len(@) < outboxSize THEN Append(@, bc[c].line) ELSE @]
                  /\ bc[c].sender \in DOMAIN clients
                        => outbox'[clients[bc[c].sender]] = outbox[clients[bc[c].sender]]
                  /\ clients' = clients

\* C2: broadcastExcept(x, line) appends line exactly once to the queue of
\* every session registered under another identity that has room, leaves
\* the queue of the session registered as x unchanged, and leaves the
\* registry unchanged
C2_BroadcastExcept ==
    [](C2_Exclusion /\ C2_NoOwnLine) /\ [][C2_StartStep /\ C2_SendStep]_vars

\* three sessions: the MSG of one is in the queues of the two others and
\* not in its own
C2_Witness ==
    \E c \in Conns :
        /\ Cardinality(DOMAIN clients) = NConns /\ ~bc[c].active /\ nread[c] = 1
        /\ \A d \in Conns \ {c} : Contains(outbox[d], MsgTextLine(username[c], <<"x">>))
        /\ ~Contains(Lines(c), MsgTextLine(username[c], <<"x">>))

----
\* the session's readLoop can go on reading: it has not returned, and
\* neither end of the connection is closed
KeepsReading(c) == ~done[c] /\ ~connClosed[c] /\ peer[c] = "open"

\* C5, the announcement: the handler that has registered its name starts
\* one broadcast of JOINED|name to every name registered but its own
C5_AnnounceStep ==
    \A c \in Conns :
        pc[c] = "sendOK" /\ pc'[c] # "sendOK"
            => LET targets == DOMAIN clients \ {username[c]}
               IN  /\ clients[username[c]] = c
                   /\ clients' = clients /\ outbox' = outbox
                   /\ IF targets = {} THEN pc'[c] = "read" /\ ~bc'[c].active
                      ELSE /\ pc'[c] = "bcJoined"
                           /\ bc'[c] = [active |-> TRUE, sender |-> username[c],
                                        line |-> JoinedLine(username[c]),
                                        todo |-> targets]

\* C5, exactly once: a session gets one more JOINED|n only as a target of
\* the announcement of the session that joined as n, which serves it once;
\* with room in the queue the line is appended, without room it is dropped
C5_EnqueueStep ==
    /\ \A d \in Conns : \A n \in Names :
          Occurrences(Lines(d)', JoinedLine(n)) > Occurrences(Lines(d), JoinedLine(n))
              => \E c \in Conns \ {d} :
                    /\ pc[c] = "bcJoined" /\ username[c] = n
                    /\ \E m \in bc[c].todo \ {n} :
                          /\ clients[m] = d
                          /\ bc'[c].active => m \notin bc'[c].todo
                    /\ outbox'[d] = Append(outbox[d], JoinedLine(n))
    /\ \A c \in Conns :
          pc[c] = "bcJoined" /\ bc'[c] # bc[c]
              => \E m \in bc[c].todo :
                    /\ bc'[c] = IF bc[c].todo = {m} THEN NoBc
                                ELSE [bc[c] EXCEPT !.todo = @ \ {m}]
                    /\ outbox'[clients[m]] =
                          IF Len(outbox[clients[m]]) < outboxSize
                          THEN Append(outbox[clients[m]], bc[c].line)
                          ELSE outbox[clients[m]]

\* C5, the line of a session that keeps reading leaves its queue only for
\* the connection
C5_WriteStep ==
    \A d \in Conns :
        KeepsReading(d) /\ outbox[d] # <<>> /\ outbox'[d] = Tail(outbox[d])
            => wire'[d] = Append(wire[d], Head(outbox[d]))

\* C5, the joining session never holds its own JOINED line
C5_NoOwnJoined ==
    \A c \in Conns : ~Contains(Lines(c), JoinedLine(username[c]))

\* C5, delivery: a JOINED line in the queue of a session is delivered to
\* its peer, unless the session stops reading
C5_Delivered ==
    \A d \in Conns : \A n \in Names :
        Contains(outbox[d], JoinedLine(n))
            ~> (Contains(wire[d], JoinedLine(n)) \/ ~KeepsReading(d))

\* C5: when a connection joins as B, every session registered under
\* another name at the announcement has JOINED|B enqueued exactly once if
\* its queue has room and, if it keeps reading, is delivered the line; B
\* never gets its own JOINED|B
C5_JoinedAnnounced ==
    /\ []C5_NoOwnJoined
    /\ [][C5_AnnounceStep /\ C5_EnqueueStep /\ C5_WriteStep]_vars
    /\ C5_Delivered

\* a session that is still reading has been delivered the JOINED line of
\* the other
C5_Witness ==
    \E d \in Conns : \E c \in Conns \ {d} :
        /\ KeepsReading(d) /\ pc[d] = "read" /\ pc[c] = "read"
        /\ Contains(wire[d], JoinedLine(username[c]))
        /\ ~Contains(Lines(c), JoinedLine(username[c]))

----
\* session d is a target that the LEFT broadcast of c has yet to serve
LeftTarget(c, d) ==
    pc[c] = "bcLeft" /\ \E m \in bc[c].todo : clients[m] = d

\* C6, termination: a readLoop that returns, on LEAVE or on a failed read,
\* closes done and goes to removeClient
C6_TerminateStep ==
    \A c \in Conns :
        ~done[c] /\ done'[c] => pc[c] = "read" /\ pc'[c] = "remove" /\ Registered(c)

\* C6, deregistration: a terminated session is eventually out of the
\* registry
C6_Deregistered ==
    \A c \in Conns : (pc[c] = "remove") ~> (Deregistered(c) /\ ~Registered(c))

\* C6, the announcement: after the delete removeClient starts one
\* broadcast of LEFT|name to every name registered but its own
C6_AnnounceStep ==
    \A c \in Conns :
        pc[c] = "left" /\ pc'[c] # "left"
            => LET targets == DOMAIN clients \ {username[c]}
               IN  /\ ~Registered(c)
                   /\ clients' = clients /\ outbox' = outbox
                   /\ IF targets = {} THEN pc'[c] = "closed" /\ ~bc'[c].active
                      ELSE /\ pc'[c] = "bcLeft"
                           /\ bc'[c] = [active |-> TRUE, sender |-> username[c],
                                        line |-> LeftLine(username[c]),
                                        todo |-> targets]

\* C6, once for a termination: a session gets one more LEFT|n only as a
\* target of the LEFT broadcast of the session that left as n, which serves
\* it once; with room in the queue the line is appended, without room it is
\* dropped
C6_EnqueueStep ==
    /\ \A d \in Conns : \A n \in Names :
          Occurrences(Lines(d)', LeftLine(n)) > Occurrences(Lines(d), LeftLine(n))
              => \E c \in Conns \ {d} :
                    /\ pc[c] = "bcLeft" /\ username[c] = n
                    /\ \E m \in bc[c].todo \ {n} :
                          /\ clients[m] = d
                          /\ bc'[c].active => m \notin bc'[c].todo
                    /\ outbox'[d] = Append(outbox[d], LeftLine(n))
    /\ \A c \in Conns :
          pc[c] = "bcLeft" /\ bc'[c] # bc[c]
              => \E m \in bc[c].todo :
                    /\ bc'[c] = IF bc[c].todo = {m} THEN NoBc
                                ELSE [bc[c] EXCEPT !.todo = @ \ {m}]
                    /\ outbox'[clients[m]] =
                          IF Len(outbox[clients[m]]) < outboxSize
                          THEN Append(outbox[clients[m]], bc[c].line)
                          ELSE outbox[clients[m]]

\* C6, delivery: a LEFT line in the queue of a session is delivered to its
\* peer, unless the session stops reading
C6_Delivered ==
    \A d \in Conns : \A n \in Names :
        Contains(outbox[d], LeftLine(n))
            ~> (Contains(wire[d], LeftLine(n)) \/ ~KeepsReading(d))

\* C6 as stated: a terminated session is eventually deregistered, and
\* every session still registered at the LEFT broadcast is eventually
\* delivered LEFT|B (granted here that it keeps reading)
C6_LeftDeliveredToAll ==
    /\ C6_Deregistered
    /\ \A c \in Conns : \A d \in Conns \ {c} :
          LeftTarget(c, d)
              ~> (Contains(wire[d], LeftLine(username[c])) \/ ~KeepsReading(d))

\* C6, amended: a terminated session is eventually deregistered; every
\* session registered at the LEFT broadcast has LEFT|B enqueued once for the
\* termination if its queue has room and, if it keeps reading, is
\* delivered the enqueued line
C6_LeftAnnounced ==
    /\ [][C6_TerminateStep /\ C6_AnnounceStep /\ C6_EnqueueStep]_vars
    /\ C6_Deregistered
    /\ C6_Delivered

\* a session that is still reading has been delivered the LEFT line of a
\* session that terminated and is out of the registry
C6_Witness ==
    \E d \in Conns : \E c \in Conns \ {d} :
        /\ KeepsReading(d) /\ pc[d] = "read"
        /\ pc[c] = "closed" /\ done[c] /\ ~Registered(c)
        /\ Occurrences(wire[d], LeftLine(username[c])) = 1

----
\* the MSG lines in q that carry the name n
MsgFrom(q, n) ==
    Cardinality({i \in 1..Len(q) : \E b \in Bodies : q[i] = MsgTextLine(n, b)})

\* every client has sent its one line
AllSent == \A c \in Conns : nread[c] = 1

\* the peer of c has one MSG line of every other client and none of its own
Complete(c) ==
    \A d \in Conns :
        MsgFrom(wire[c], NameOf(d)) = IF d = c THEN 0 ELSE 1

\* nothing is in progress: every handler is in readLoop, no broadcast runs
\* and every queue is empty
Quiet ==
    \A c \in Conns : pc[c] = "read" /\ ~bc[c].active /\ outbox[c] = <<>>

\* C10, no duplicate: no client holds two MSG lines of one sender, or a
\* MSG line of its own
C10_NoDuplicate ==
    \A c \in Conns : \A d \in Conns :
        MsgFrom(Lines(c), NameOf(d)) <= IF d = c THEN 0 ELSE 1

\* C10 as stated: with a queue capacity of at least NConns - 1, once every
\* client has sent its line every client is eventually delivered one MSG
\* line of each other client
C10_AllDelivered ==
    outboxSize >= NConns - 1 => (AllSent ~> \A c \in Conns : Complete(c))

\* C10, no deadlock: once every client has sent, every broadcast returns
\* and every queue is emptied; a client is then short of a MSG line only if
\* a line for it was dropped on a full queue, and every line meant for it
\* (OK, the JOINED of the later clients, the MSG of the others) was either
\* delivered or dropped
C10_Settles ==
    AllSent ~> (/\ Quiet
                /\ \A c \in Conns :
                      /\ dropped[c] = 0 => Complete(c)
                      /\ Len(wire[c]) + dropped[c] = 1 + (NConns - c) + (NConns - 1))

\* C10, with the capacity the claim names: from a state where all have
\* joined, none has sent and every queue is empty, once every client has
\* sent each is eventually delivered one MSG line of each other client
C10_FromEmptyQueues ==
    outboxSize >= NConns - 1
        => []((AllJoined /\ Quiet /\ \A c \in Conns : nread[c] = 0)
                 => [](AllSent => <>(\A c \in Conns : Complete(c) /\ dropped[c] = 0)))

\* C10, amended: no duplicate, no deadlock, and delivery of one MSG line
\* of each other client to every client for which no line was dropped;
\* capacity NConns - 1 rules drops out when the queues are empty as the
\* sending starts
C10_MeshDelivered ==
    /\ []C10_NoDuplicate
    /\ C10_Settles
    /\ C10_FromEmptyQueues

\* every client has sent and every client has been delivered the MSG line
\* of each other client
C10_Witness ==
    AllSent /\ Quiet /\ \A c \in Conns : Complete(c) /\ dropped[c] = 0

----
\* the lines writeLoop has passed to Fprintf, in order
WrittenLines(c) == [i \in 1..Len(written[c]) |-> written[c][i].line]

\* C11, the order of the queue: the lines writeLoop has written followed
\* by the lines still queued are the lines accepted, in the order of their
\* acceptance
C11_Order ==
    \A c \in Conns : accepted[c] = WrittenLines(c) \o outbox[c]

\* C11, on the transport: what the peer has got after the handler's OK is
\* a prefix of the lines written
C11_OnTheWire ==
    \A c \in Conns :
        wpc[c] # "off"
            => \E k \in 0..Len(written[c]) :
                  \/ wire[c] = SubSeq(WrittenLines(c), 1, k)
                  \/ wire[c] = <<OkLine>> \o SubSeq(WrittenLines(c), 1, k)

\* C11, one write: writeLoop, in its select loop or draining, takes the
\* head of the queue and writes that line, once
C11_WriteStep ==
    \A c \in Conns :
        written'[c] # written[c]
            => /\ wpc[c] \in {"run", "drain"}
               /\ outbox[c] # <<>> /\ outbox'[c] = Tail(outbox[c])
               /\ WrittenLines(c)' = Append(WrittenLines(c), Head(outbox[c]))
               /\ accepted'[c] = accepted[c]

\* C11: the lines a session's writeLoop writes to the connection are the
\* lines accepted into its queue, in the order of their acceptance, in the
\* select loop and in the drain loop
C11_WrittenInQueueOrder ==
    [](C11_Order /\ C11_OnTheWire) /\ [][C11_WriteStep]_vars

\* a terminated session whose writeLoop has drained and returned: its
\* lines were accepted and written, the last accepted after done was closed
C11_Witness ==
    \E c \in Conns :
        /\ trace /\ done[c] /\ wpc[c] = "exit" /\ outbox[c] = <<>>
        /\ Len(accepted[c]) >= 2 /\ Len(accepted[c]) > atDone[c]
        /\ WrittenLines(c) = accepted[c]
        /\ \A i \in 1..Len(written[c]) : written[c][i].ok

----
\* i and j are places in q of two MSG lines of the sender named n, the one
\* at i sent as the k1-th and the one at j as the k2-th SEND line
MsgPair(q, n, i, j, k1, k2) ==
    /\ q[i] = MsgTextLine(n, BodyAt(k1))
    /\ q[j] = MsgTextLine(n, BodyAt(k2))

\* C12: for every sender S and recipient R, the MSG lines of S that R is
\* delivered, and those still in R's queue, come in the order in which S
\* sent the SEND lines, whatever the other peers send and whoever joins
\* or leaves
C12_PerSenderOrder ==
    \A r \in Conns : \A s \in Conns \ {r} :
        \A i \in 1..Len(Lines(r)) : \A j \in 1..Len(Lines(r)) :
            \A k1 \in 1..OrderLines : \A k2 \in 1..OrderLines :
                i < j /\ MsgPair(Lines(r), NameOf(s), i, j, k1, k2) => k1 < k2

\* a recipient that has sent lines of its own has been delivered the two
\* MSG lines of the other sender
C12_Witness ==
    \E r \in Conns : \E s \in Conns \ {r} :
        /\ nread[r] >= 1 /\ Contains(Lines(s), MsgTextLine(NameOf(r), BodyAt(1)))
        /\ \E i \in 1..Len(wire[r]) : \E j \in 1..Len(wire[r]) :
              i < j /\ MsgPair(wire[r], NameOf(s), i, j, 1, 2)

----
\* C13: when Shutdown has returned the accept loop has exited and accepts
\* no more, the handler of every connection that was accepted has
\* returned and closed its conn, and the registry is empty
C13_ShutdownReturned ==
    sd = "done"
        => /\ ~serving /\ listener = "closed" /\ quit
           /\ \A c \in Conns :
                 /\ pc[c] \in {"idle", "closed"}
                 /\ pc[c] = "closed" => connClosed[c] /\ ~bc[c].active
                 /\ ~Registered(c)
           /\ DOMAIN clients = {}

\* Shutdown has returned; one connection had joined and was closed as a
\* session, another was closed without a session
C13_Witness ==
    /\ sd = "done"
    /\ \E c \in Conns : \E d \in Conns \ {c} :
          /\ pc[c] = "closed" /\ done[c] /\ Contains(wire[c], OkLine)
          /\ pc[d] = "closed" /\ ~done[d]

----
\* C14: once closeAll has run and Shutdown waits, the pending read of
\* every connection in flight is cancelled: the conn of every joined
\* session is closed, also of one that was in its handshake when closeAll
\* ran and joined afterwards
C14_ReadsCancelled ==
    sd = "wait"
        => \A c \in Conns :
              pc[c] \in {"sendOK", "bcJoined", "read", "bcMsg"} => connClosed[c]

----
\* C15: for every message of a supported type whose fields are not empty,
\* over an alphabet with the separator, Decode(Encode(m)) succeeds and
\* returns m
C15_RoundTrip ==
    codec.stage = "decoded" => ~codec.res.err /\ codec.res.msg = codec.m

----
\* C16: a connection closed without its first line having been read (the
\* peer sent nothing before the deadline, or the read failed) was answered
\* ERR|expected JOIN message before the close
C16_ReadFailureAnswered ==
    \A c \in Conns :
        pc[c] = "closed" /\ ~text[c].read => wire[c] = <<ErrExpected>>

----
\* the wire forms of a JOIN without a name
EmptyJoins == {TypeJoin \o Bar, TypeJoin}

ErrEmpty == <<"E", "R", "R", "|">> \o CannotBeEmpty

\* C17: a connection whose first line is a JOIN without a name is answered
\* ERR|username cannot be empty and closed without being registered
C17_EmptyNameAnswered ==
    \A c \in Conns :
        pc[c] = "closed" /\ text[c].read /\ nread[c] = 0 /\ text[c].text \in EmptyJoins
            => wire[c] = <<ErrEmpty>> /\ ~Registered(c)

----
\* C18, the registry: it maps n to the session of connection c exactly if
\* c's handler has had TRUE from addClient under the name n and has not
\* yet run removeClient
C18_Iff ==
    /\ DOMAIN clients \subseteq Names
    /\ \A n \in Names : \A c \in Conns :
          (n \in DOMAIN clients /\ clients[n] = c) <=> (Session(c) /\ username[c] = n)

\* C18, entries come and go with their own connection: an entry is added
\* by the handshake of the connection it maps to, and removed by the
\* removeClient of that connection, whose readLoop has returned on LEAVE,
\* on a failed read or on a conn that Shutdown closed; no other entry
\* changes in the step
C18_OwnStep ==
    \A n \in Names :
        /\ n \in DOMAIN clients /\ n \in DOMAIN clients' => clients'[n] = clients[n]
        /\ n \notin DOMAIN clients /\ n \in DOMAIN clients'
              => LET c == clients'[n]
                 IN  pc[c] = "handshake" /\ pc'[c] = "sendOK" /\ username'[c] = n
        /\ n \in DOMAIN clients /\ n \notin DOMAIN clients'
              => LET c == clients[n]
                 IN  /\ pc[c] = "remove" /\ pc'[c] = "left" /\ username[c] = n
                     /\ done[c]
                     /\ \/ text[c].text = TypeLeave
                        \/ peer[c] = "closed"
                        \/ connClosed[c]

\* C18, a rejected connection: the handshake that ends in a close leaves
\* the registry as it is
C18_RejectStep ==
    \A c \in Conns :
        pc[c] = "handshake" /\ pc'[c] = "closed" => clients' = clients

\* C18: the registry holds exactly the sessions that are registered and
\* not yet deregistered; deregistering removes the connection's own entry
\* only, a rejected connection changes nothing, and a silent session stays
\* until it leaves, its read fails or Shutdown closes it
C18_RegistryExact ==
    []C18_Iff /\ [][C18_OwnStep /\ C18_RejectStep]_vars

\* a joined session that has sent nothing is registered, after another
\* connection was refused its name
C18_Witness ==
    \E c \in Conns : \E d \in Conns \ {c} :
        /\ pc[c] = "read" /\ nread[c] = 0 /\ clients[username[c]] = c
        /\ Refused(d) /\ username[d] = username[c]

----
\* no Fprintf of c's writeLoop has returned an error
NoWriteFailed(c) == \A i \in 1..Len(written[c]) : written[c][i].ok

\* C19: the handler of a session that terminated with lines in its queue
\* closes the conn only when writeLoop has written all the lines that were
\* accepted when done was closed, no write having failed (here for a peer
\* that keeps its end open, without Shutdown)
C19_DrainedFirst ==
    \A c \in Conns :
        /\ trace /\ sd = "idle" /\ peer[c] = "open"
        /\ done[c] /\ NoWriteFailed(c)
        /\ pc[c] = "closed"
        => Len(written[c]) >= atDone[c]

----
\* C20: a Fprintf of writeLoop that returned an error is the last one
\* writeLoop makes, in the select loop and in the drain loop
C20_NoWriteAfterFailure ==
    \A c \in Conns :
        \A i \in 1..Len(written[c]) : ~written[c][i].ok => i = Len(written[c])

----
\* writeLoop has returned on a failed write (the select loop, not the
\* drain), and readLoop has not returned
WriteFailed(c) == wpc[c] = "exit" /\ ~done[c]

\* C21: a write failure on a joined session terminates the session as a
\* read failure does: the session is eventually deregistered (and with
\* that LEFT is announced and the name free again), also when no read
\* fails and no LEAVE comes on the connection
C21_WriteFailureTerminates ==
    \A c \in Conns : WriteFailed(c) ~> Deregistered(c)

----
\* the outbound activity of the registered session s is stalled (its peer
\* does not read) or has exited on a failed write
Stuck(s) == Registered(s) /\ (peer[s] = "stalled" \/ WriteFailed(s))

\* the lines the server broadcasts
BroadcastLines ==
    {JoinedLine(n) : n \in Names} \cup {LeftLine(n) : n \in Names}
        \cup {MsgTextLine(n, b) : n \in Names, b \in Bodies}

\* C22, a broadcast is never blocked: each of its pending Sends can run,
\* whatever the state of the target's writeLoop and queue
C22_SendEnabled ==
    \A c \in Conns : bc[c].active => \A n \in bc[c].todo : ENABLED BroadcastSend(c, n)

\* C22, the line is enqueued: a broadcast serves one target at a step; a
\* target with room in its queue gets the line appended, one without room
\* keeps its queue, and no other queue changes
C22_EnqueueStep ==
    \A c \in Conns :
        bc[c].active /\ bc'[c] # bc[c]
            => \E n \in bc[c].todo :
                  /\ bc'[c] = IF bc[c].todo = {n} THEN NoBc
                              ELSE [bc[c] EXCEPT !.todo = @ \ {n}]
                  /\ outbox' = [outbox EXCEPT ![clients[n]] =
                                   IF Len(@) < outboxSize THEN Append(@, bc[c].line) ELSE @]

\* C22, every broadcast completes, and with it the registry lock is free
\* again for addClient and removeClient
C22_Completes ==
    /\ \A c \in Conns : bc[c].active ~> ~bc[c].active
    /\ ~CanLock ~> CanLock

\* C22, deregister is not blocked: a handler that has left readLoop gets
\* through removeClient and returns
C22_Deregisters ==
    \A c \in Conns : (pc[c] = "remove") ~> (pc[c] = "closed" /\ ~Registered(c))

\* C22, tryRegister is not blocked: with the lock free the JOIN of a
\* connection in its handshake is served
C22_RegisterEnabled ==
    \A c \in Conns :
        pc[c] = "handshake" /\ peer[c] = "open" /\ CanLock
            => ENABLED Handshake(c, Encode(Message(TypeJoin, NameOf(c), <<>>)))

\* C22, delivery: a line enqueued for a session is delivered to its peer,
\* unless that session itself stops reading
C22_Delivered ==
    \A d \in Conns : \A line \in BroadcastLines :
        Contains(outbox[d], line) ~> (Contains(wire[d], line) \/ ~KeepsReading(d))

\* C22: a session whose writeLoop is stalled or has exited, whether its
\* peer does not read, its queue is full or a write failed, never blocks
\* broadcast, addClient or removeClient for anyone: every broadcast
\* completes, every other registered session with room in its queue has the
\* line enqueued, and a session that keeps reading is eventually delivered it
C22_StuckSessionBlocksNoOne ==
    /\ [](C22_SendEnabled /\ C22_RegisterEnabled)
    /\ [][C22_EnqueueStep]_vars
    /\ C22_Completes
    /\ C22_Deregisters
    /\ C22_Delivered

\* session s is stuck with a full queue and has lost the MSG line of c,
\* whose broadcast has returned; session d, still reading, has been
\* delivered that line
C22_Witness ==
    \E s \in Conns : \E c \in Conns \ {s} : \E d \in Conns \ {s, c} :
        /\ Stuck(s) /\ Len(outbox[s]) = outboxSize /\ dropped[s] > 0
        /\ nread[c] = 1 /\ ~bc[c].active
        /\ ~Contains(Lines(s), MsgTextLine(username[c], <<"x">>))
        /\ KeepsReading(d) /\ Contains(wire[d], MsgTextLine(username[c], <<"x">>))

----
\* readLoop has no case for the line: it does not decode, or it decodes to
\* a type other than SEND and LEAVE
IsOdd(line) ==
    Decode(line).err \/ Decode(line).msg.Type \notin {TypeSend, TypeLeave}

\* C23, the line changes nothing: the step of readLoop that reads such a
\* line leaves the registry, every queue, every connection and the session
\* as they are; nothing is written or enqueued for the sender
C23_SkipStep ==
    \A c \in Conns :
        pc[c] = "read" /\ nread'[c] = nread[c] + 1 /\ IsOdd(text'[c].text)
            => /\ clients' = clients /\ outbox' = outbox /\ wire' = wire
               /\ dropped' = dropped /\ bc' = bc
               /\ pc' = pc /\ wpc' = wpc /\ done' = done
               /\ connClosed' = connClosed /\ peer' = peer
               /\ username' = username

\* C23, reading goes on: after such a line readLoop is in Scan again, and
\* the next line of the peer is read
C23_ReadsOn ==
    \A c \in Conns :
        (/\ pc[c] = "read" /\ nread[c] >= 1 /\ IsOdd(text[c].text)
         /\ peer[c] = "open" /\ ~connClosed[c])
            => /\ Registered(c) /\ ~done[c]
               /\ \A b \in Bodies : ENABLED ReadLine(c, SendTextLine(b))

\* C23: after the join a line that does not decode, or that decodes to a
\* type other than SEND and LEAVE (a second JOIN), changes nothing: the
\* registry, every outbox and the session stay as they are, nothing is
\* sent back, and readLoop goes on to the next line
C23_OddLineSkipped == []C23_ReadsOn /\ [][C23_SkipStep]_vars

\* a session among others has read two lines, the last of them a second
\* JOIN, and is still registered and reading
C23_Witness ==
    \E c \in Conns :
        /\ pc[c] = "read" /\ nread[c] = 2
        /\ text[c].text = TypeJoin \o Bar \o <<"b">>
        /\ Registered(c) /\ Cardinality(DOMAIN clients) >= 2
        /\ peer[c] = "open" /\ ~connClosed[c]

----
\* addClient returned true for the connection and OK has been written (or
\* its write has failed)
PastOK(c) ==
    \/ pc[c] \in {"bcJoined", "read", "bcMsg", "remove", "left", "bcLeft"}
    \/ pc[c] = "closed" /\ done[c]

\* C24, OK comes first: nothing reaches a registered connection before
\* its OK, and whatever has reached a joined connection starts with OK
C24_OkFirst ==
    \A c \in Conns :
        /\ pc[c] = "sendOK" => wire[c] = <<>>
        /\ PastOK(c) /\ wire[c] # <<>> => Head(wire[c]) = OkLine

\* C24, the lines broadcast to the connection since addClient wait in the
\* outbox: writeLoop is started only when OK is written and the JOINED
\* broadcast has returned, so it never runs while the handler may write
C24_OneWriter ==
    \A c \in Conns :
        /\ pc[c] \in {"idle", "handshake", "sendOK", "bcJoined"} => wpc[c] = "off"
        /\ wpc[c] = "off" /\ PastOK(c) => pc[c] = "bcJoined"

\* C24, the writes: the handler writes OK with writeLoop not started, on
\* an open connection as the first line; every write to a joined
\* connection after that is writeLoop's, of the head of the outbox
C24_WriteStep ==
    \A c \in Conns :
        /\ pc[c] = "sendOK" /\ pc'[c] # "sendOK"
              => /\ wpc[c] = "off"
                 /\ wire'[c] = IF ~connClosed[c] /\ peer[c] = "open"
                               THEN <<OkLine>> ELSE <<>>
                 /\ outbox'[c] = outbox[c]
        /\ PastOK(c) /\ wire'[c] # wire[c]
              => /\ wpc[c] \in {"run", "drain"} /\ pc'[c] = pc[c]
                 /\ outbox[c] # <<>>
                 /\ wire'[c] = Append(wire[c], Head(outbox[c]))

\* C24: OK is the first line written to a joined connection: no line that
\* another session broadcast between addClient and the start of writeLoop
\* is written before it, and the handler and writeLoop never write to the
\* connection at the same time
C24_OkWrittenFirst == [](C24_OkFirst /\ C24_OneWriter) /\ [][C24_WriteStep]_vars

\* OK has been written to a connection whose writeLoop is not started
\* yet, and a line another session broadcast since addClient waits in its
\* outbox
C24_Witness ==
    \E c \in Conns :
        /\ pc[c] = "bcJoined" /\ wpc[c] = "off"
        /\ wire[c] = <<OkLine>>
        /\ \E n \in Names \ {username[c]} : \E b \in Bodies :
              outbox[c] = <<MsgTextLine(n, b)>>

----
\* C25, closed on every path: the handler of a connection has returned
\* only with the conn closed, and when Shutdown has returned the conn of
\* every accepted connection is closed
C25_ClosedAtReturn ==
    /\ \A c \in Conns : pc[c] = "closed" => connClosed[c]
    /\ sd = "done" => \A c \in Conns : pc[c] # "idle" => connClosed[c]

\* C25, the close of each path: whichever way the handler returns (the
\* first read fails, the first line is refused, the name is taken, LEAVE,
\* a failed read, a conn closed by Shutdown) the conn is closed in that step
C25_ReturnStep ==
    \A c \in Conns : pc[c] # "closed" /\ pc'[c] = "closed" => connClosed'[c]

\* C25, closed once: a closed conn stays closed, and a close of a conn
\* that Shutdown or the handler has closed before changes nothing of the
\* connection and does not keep the handler from returning
C25_CloseStep ==
    \A c \in Conns :
        connClosed[c]
            => /\ connClosed'[c]
               /\ pc[c] \in {"remove", "left", "bcLeft"} /\ pc'[c] = "closed"
                     => /\ connClosed' = connClosed /\ peer' = peer /\ wire' = wire
                        /\ outbox'[c] = outbox[c] /\ done' = done /\ sd' = sd

\* C25: the conn of every accepted connection ends closed on every path
\* (refused handshake, LEAVE, failed read, Shutdown), and it is closed once
\* in effect: when both Shutdown and the handler close it the second close
\* changes nothing and fails nothing
C25_ClosedOnce == []C25_ClosedAtReturn /\ [][C25_ReturnStep /\ C25_CloseStep]_vars

\* Shutdown has returned; it closed the conn of a session in readLoop, whose
\* read failed on the closed conn and whose handler closed the conn again
C25_Witness ==
    /\ sd = "done"
    /\ \E c \in Conns :
          /\ pc[c] = "closed" /\ done[c] /\ connClosed[c]
          /\ nread[c] = 0 /\ peer[c] = "open"

----
\* the first i lines that were enqueued for the connection
FirstOf(c, i) == SubSeq(Lines(c), 1, i)

\* C26: for the observer that stays registered and loses no line, the
\* announcements about a name follow the registry: JOINED|n and LEFT|n
\* alternate in the order of their enqueueing, so that no LEFT|n of an old
\* session comes after the JOINED|n of the session that holds the name
C26_AnnouncedInRegistryOrder ==
    \A n \in Names \ {NameOf(1)} :
        dropped[1] = 0 /\ KeepsReading(1)
            => \A i \in 0..Len(Lines(1)) :
                  /\ Occurrences(FirstOf(1, i), LeftLine(n))
                        <= Occurrences(FirstOf(1, i), JoinedLine(n))
                  /\ Occurrences(FirstOf(1, i), JoinedLine(n))
                        <= Occurrences(FirstOf(1, i), LeftLine(n)) + 1

----
\* C27, no enqueue after removeClient: the outbox of a session that
\* removeClient has deleted gains no line; it only loses its head to
\* writeLoop
C27_NoEnqueueStep ==
    \A c \in Conns :
        Deregistered(c)
            => outbox'[c] = outbox[c]
                  \/ (outbox[c] # <<>> /\ outbox'[c] = Tail(outbox[c]))

\* C27, the lock: removeClient deletes a session only when no broadcast
\* holds the read lock, so every broadcast that saw the session has done
\* its Send to it
C27_RemoveStep ==
    \A c \in Conns :
        pc[c] = "remove" /\ pc'[c] # "remove"
            => /\ CanLock
               /\ \A d \in Conns : \A n \in Names :
                     bc'[d].active /\ n \in bc'[d].todo => clients'[n] # c

\* C27, a broadcast in progress sees registered sessions only
C27_TargetsRegistered ==
    \A d \in Conns :
        bc[d].active
            => \A n \in bc[d].todo :
                  n \in DOMAIN clients /\ ~Deregistered(clients[n])

\* C27: once removeClient has completed for a session no line is enqueued
\* to its outbox again: a concurrent broadcast either does its Send to
\* the session under the read lock before the delete, or does not see
\* the session
C27_NoEnqueueAfterDeregister ==
    []C27_TargetsRegistered /\ [][C27_NoEnqueueStep /\ C27_RemoveStep]_vars

\* session c is deregistered and its name is held by a new session d; a
\* broadcast that came after has enqueued its line for d and not for c,
\* whose conn is still open
C27_Witness ==
    \E c \in Conns : \E d \in Conns \ {c} : \E s \in Conns \ {c, d} :
        /\ pc[c] = "left" /\ ~connClosed[c] /\ dropped[c] = 0
        /\ username[d] = username[c] /\ Registered(d)
        /\ nread[s] = 1 /\ ~bc[s].active
        /\ Contains(Lines(d), MsgTextLine(username[s], <<"x">>))
        /\ ~Contains(outbox[c], MsgTextLine(username[s], <<"x">>))

----
\* C28: every MSG line delivered to a recipient decodes, at the recipient,
\* to the name under which its sender is registered and to the body the
\* sender submitted, for every name the handshake accepts, names with the
\* separator included: no session gets a MSG attributed to another name
C28_MsgKeepsIdentity ==
    \A r \in Conns : \A i \in 1..Len(wire[r]) :
        LET d == Decode(wire[r][i])
        IN  SplitN2(wire[r][i])[1] = TypeMsg
                => /\ ~d.err
                   /\ d.msg.Body \in Bodies
                   /\ \E s \in Conns \ {r} :
                         username[s] = d.msg.Username /\ nread[s] >= 1

====
